---------------------------- MODULE Spec2Model ----------------------------
(***************************************************************************)
(* Model of bigcommerce/orders.go: the OrderService facade (List, Count,   *)
(* Show, New, Edit) over the request builder held in OrderService.sling.   *)
(*                                                                         *)
(* Representation.                                                         *)
(*   - Go strings are TLA+ strings; "\o" concatenates them.                *)
(*   - A pointer to uint32 is <<>> when nil, <<v>> when it points to v.   *)
(*   - A float32 is held in tenths (105 stands for 10.5).                  *)
(*   - A URL path relative to the API root is the sequence of its          *)
(*     "/"-separated segments: "orders/" is <<"orders", "">> and           *)
(*     "orders/count" is <<"orders", "count">>.                            *)
(*   - A query string is the sequence of its key=value pairs, in the order *)
(*     url.Values.Encode emits them; a JSON object is the sequence of its  *)
(*     members, each value being its JSON text.                            *)
(* The builder methods (New, Get, Post, Put, Path, QueryStruct, BodyJSON,  *)
(* Request) follow github.com/dghubble/sling as orders.go calls them; the  *)
(* encoders follow go-querystring and encoding/json for the struct tags    *)
(* orders.go declares.                                                     *)
(***************************************************************************)
EXTENDS Integers, Sequences, FiniteSets, TLC

VARIABLES
    sling,      \* OrderService.sling: the builder shared by all calls
    last,       \* the most recent completed call: arguments, request, result
    ncalls,     \* calls started on the service
    nsent,      \* requests handed to the request executor
    pc,         \* concurrent runs: position of each in-flight call
    call,       \* concurrent runs: operation and arguments of each call
    loc,        \* concurrent runs: the builder each call works on
    issued,     \* concurrent runs: the request each call handed over
    wrote       \* concurrent runs: shared fields each call has written

vars == <<sling, last, ncalls, nsent, pc, call, loc, issued, wrote>>

\* Bounds of the exploration.
MaxCalls == 3
MaxInFlight == 2

-----------------------------------------------------------------------------
(* Formatting *)

Digits == <<"0", "1", "2", "3", "4", "5", "6", "7", "8", "9">>

RECURSIVE FormatUint(_)
\* strconv: decimal digits of a non-negative integer, most significant first
FormatUint(n) ==
    IF n < 10 THEN Digits[n + 1]
    ELSE FormatUint(n \div 10) \o Digits[(n % 10) + 1]

\* fmt.Sprintf("%d", id) / strconv.FormatInt(v, 10)
Sprintf_d(id) == IF id < 0 THEN "-" \o FormatUint(0 - id) ELSE FormatUint(id)

\* strconv.FormatFloat(v, 'f', -1, 32) on a value held in tenths
FormatFloat(t) ==
    LET a == IF t < 0 THEN 0 - t ELSE t
        s == IF t < 0 THEN "-" ELSE ""
    IN  s \o FormatUint(a \div 10)
          \o (IF a % 10 = 0 THEN "" ELSE "." \o Digits[(a % 10) + 1])

\* url.QueryEscape on the string values the model uses: "@" and ":" are
\* percent-encoded, unreserved characters are kept
QueryEscape(s) ==
    CASE s = "a@b.c"   -> "a%40b.c"
      [] s = "id:desc" -> "id%3Adesc"
      [] OTHER         -> s

-----------------------------------------------------------------------------
(* Request parameter types *)

\* type OrderListParams: Go field, url tag name, omitempty, kind
OrderListParamsFields == <<
    [name |-> "Page",          key |-> "page",           omitempty |-> TRUE, kind |-> "int"],
    [name |-> "Limit",         key |-> "limit",          omitempty |-> TRUE, kind |-> "int"],
    [name |-> "Sort",          key |-> "sort",           omitempty |-> TRUE, kind |-> "string"],
    [name |-> "MinID",         key |-> "min_id",         omitempty |-> TRUE, kind |-> "int"],
    [name |-> "MaxID",         key |-> "max_id",         omitempty |-> TRUE, kind |-> "int"],
    [name |-> "MinTotal",      key |-> "min_total",      omitempty |-> TRUE, kind |-> "float"],
    [name |-> "MaxTotal",      key |-> "max_total",      omitempty |-> TRUE, kind |-> "float"],
    [name |-> "CustomerID",    key |-> "customer_id",    omitempty |-> TRUE, kind |-> "ptr"],
    [name |-> "Email",         key |-> "email",          omitempty |-> TRUE, kind |-> "string"],
    [name |-> "StatusID",      key |-> "status_id",      omitempty |-> TRUE, kind |-> "ptr"],
    [name |-> "PaymentMethod", key |-> "payment_method", omitempty |-> TRUE, kind |-> "string"] >>

\* the zero value OrderListParams{}
ZeroOrderListParams ==
    [Page |-> 0, Limit |-> 0, Sort |-> "", MinID |-> 0, MaxID |-> 0,
     MinTotal |-> 0, MaxTotal |-> 0, CustomerID |-> <<>>, Email |-> "",
     StatusID |-> <<>>, PaymentMethod |-> ""]

\* the OrderListParams values calls are made with
ListParamSet ==
    { ZeroOrderListParams,
      [ZeroOrderListParams EXCEPT !.Page = 1, !.CustomerID = <<0>>,
                                  !.MinID = 7, !.MaxID = 7, !.Sort = "id:desc"],
      [ZeroOrderListParams EXCEPT !.Limit = 25, !.StatusID = <<0>>,
                                  !.Email = "a@b.c", !.MinTotal = 105] }

\* type AddressEntity is declared outside orders.go: a struct, held here
\* by an opaque value; AddressEntity{} is its zero value
ZeroAddressEntity == "AddressEntity{}"

\* type OrderEditParams: Go field, json tag name, omitempty, kind
OrderEditParamsFields == <<
    [name |-> "CustomerID",      key |-> "customer_id",      omitempty |-> TRUE, kind |-> "ptr"],
    [name |-> "StatusID",        key |-> "status_id",        omitempty |-> TRUE, kind |-> "ptr"],
    [name |-> "IPAddress",       key |-> "ip_address",       omitempty |-> TRUE, kind |-> "string"],
    [name |-> "StaffNotes",      key |-> "staff_notes",      omitempty |-> TRUE, kind |-> "string"],
    [name |-> "CustomerMessage", key |-> "customer_message", omitempty |-> TRUE, kind |-> "string"],
    [name |-> "BillingAddress",  key |-> "billing_address",  omitempty |-> TRUE, kind |-> "struct"] >>

\* the zero value OrderEditParams{}
ZeroOrderEditParams ==
    [CustomerID |-> <<>>, StatusID |-> <<>>, IPAddress |-> "", StaffNotes |-> "",
     CustomerMessage |-> "", BillingAddress |-> ZeroAddressEntity]

\* the OrderEditParams values calls are made with
EditParamSet ==
    { [ZeroOrderEditParams EXCEPT !.StatusID = <<2>>],
      [ZeroOrderEditParams EXCEPT !.CustomerID = <<0>>, !.StaffNotes = "note"],
      [ZeroOrderEditParams EXCEPT !.IPAddress = "10.0.0.1",
                                  !.BillingAddress = "AddressEntity{Street1}"] }

\* type OrderProduct: Go field, json tag name, omitempty, kind
OrderProductFields == <<
    [name |-> "ProductID",   key |-> "product_id",    omitempty |-> TRUE,  kind |-> "int"],
    [name |-> "ProductName", key |-> "name",          omitempty |-> TRUE,  kind |-> "string"],
    [name |-> "Quantity",    key |-> "quantity",      omitempty |-> FALSE, kind |-> "int"],
    [name |-> "PriceIncTax", key |-> "price_inc_tax", omitempty |-> TRUE,  kind |-> "float"],
    [name |-> "PriceExTax",  key |-> "price_ex_tax",  omitempty |-> TRUE,  kind |-> "float"] >>

\* type OrderBody: Go field, json tag name, omitempty, kind
OrderBodyFields == <<
    [name |-> "ExternalSource",     key |-> "external_source",       omitempty |-> FALSE, kind |-> "string"],
    [name |-> "CustomerID",         key |-> "customer_id",           omitempty |-> FALSE, kind |-> "ptr"],
    [name |-> "StatusID",           key |-> "status_id",             omitempty |-> FALSE, kind |-> "ptr"],
    [name |-> "BillingAddress",     key |-> "billing_address",       omitempty |-> FALSE, kind |-> "struct"],
    [name |-> "Products",           key |-> "products",              omitempty |-> FALSE, kind |-> "products"],
    [name |-> "ShippingCostIncTax", key |-> "shipping_cost_inc_tax", omitempty |-> TRUE,  kind |-> "float"],
    [name |-> "ShippingCostExTax",  key |-> "shipping_cost_ex_tax",  omitempty |-> TRUE,  kind |-> "float"],
    [name |-> "HandlingCostIncTax", key |-> "handling_cost_inc_tax", omitempty |-> TRUE,  kind |-> "float"],
    [name |-> "HandlingCostExTax",  key |-> "handling_cost_ex_tax",  omitempty |-> TRUE,  kind |-> "float"],
    [name |-> "ShippingAddresses",  key |-> "shipping_addresses",    omitempty |-> TRUE,  kind |-> "addresses"],
    [name |-> "CustomerMessage",    key |-> "customer_message",      omitempty |-> FALSE, kind |-> "string"],
    [name |-> "StaffNotes",         key |-> "staff_notes",           omitempty |-> FALSE, kind |-> "string"] >>

\* the OrderBody values calls are made with
BodySet ==
    { [ExternalSource |-> "", CustomerID |-> <<>>, StatusID |-> <<>>,
       BillingAddress |-> "AddressEntity{Street1}",
       Products |-> << [ProductID |-> 33, ProductName |-> "", Quantity |-> 1,
                        PriceIncTax |-> 0, PriceExTax |-> 0] >>,
       ShippingCostIncTax |-> 0, ShippingCostExTax |-> 0,
       HandlingCostIncTax |-> 0, HandlingCostExTax |-> 0,
       ShippingAddresses |-> <<>>, CustomerMessage |-> "", StaffNotes |-> ""],
      [ExternalSource |-> "pos", CustomerID |-> <<0>>, StatusID |-> <<1>>,
       BillingAddress |-> "AddressEntity{Street1}",
       Products |-> << [ProductID |-> 0, ProductName |-> "custom", Quantity |-> 2,
                        PriceIncTax |-> 125, PriceExTax |-> 100] >>,
       ShippingCostIncTax |-> 50, ShippingCostExTax |-> 0,
       HandlingCostIncTax |-> 0, HandlingCostExTax |-> 0,
       ShippingAddresses |-> << "AddressEntity{Street1}" >>,
       CustomerMessage |-> "hello", StaffNotes |-> "note"] }

\* the order ids Show and Edit are called with (int32)
IdSet == {-3, 120}

-----------------------------------------------------------------------------
(* Encoders driven by the struct tags *)

\* isEmptyValue of go-querystring and encoding/json: what ",omitempty" drops.
\* A struct value is never empty.
isEmptyValue(kind, v) ==
    CASE kind = "int"       -> v = 0
      [] kind = "float"     -> v = 0
      [] kind = "string"    -> v = ""
      [] kind = "ptr"       -> v = <<>>
      [] kind = "products"  -> Len(v) = 0
      [] kind = "addresses" -> Len(v) = 0
      [] kind = "struct"    -> FALSE

\* go-querystring valueString: a pointer is dereferenced, numbers are decimal
valueString(kind, v) ==
    CASE kind = "int"    -> Sprintf_d(v)
      [] kind = "float"  -> FormatFloat(v)
      [] kind = "string" -> v
      [] kind = "ptr"    -> IF v = <<>> THEN "" ELSE FormatUint(v[1])

\* the keys of the url tags of OrderListParams, as url.Values.Encode sorts them
SortedQueryKeys ==
    << "customer_id", "email", "limit", "max_id", "max_total", "min_id",
       "min_total", "page", "payment_method", "sort", "status_id" >>

QueryKeySet == { SortedQueryKeys[i] : i \in 1..Len(SortedQueryKeys) }

\* url.Values{}: no key has a value
EmptyValues == [k \in QueryKeySet |-> <<>>]

RECURSIVE reflectValue(_, _, _, _)
\* go-querystring reflectValue: url.Values.Add for each field of the struct
\* from field i on, skipping an omitempty field that holds its empty value
reflectValue(values, fields, rec, i) ==
    IF i > Len(fields) THEN values
    ELSE LET f == fields[i]
             v == rec[f.name]
         IN  IF f.omitempty /\ isEmptyValue(f.kind, v)
             THEN reflectValue(values, fields, rec, i + 1)
             ELSE reflectValue(
                      [values EXCEPT ![f.key] = Append(@, valueString(f.kind, v))],
                      fields, rec, i + 1)

RECURSIVE mergeQueryStructs(_, _, _)
\* the loop of sling addQueryStructs: the values of every query struct, in
\* the order the structs were added
mergeQueryStructs(values, queryStructs, i) ==
    IF i > Len(queryStructs) THEN values
    ELSE mergeQueryStructs(
             reflectValue(values, OrderListParamsFields, queryStructs[i], 1),
             queryStructs, i + 1)

RECURSIVE Encode(_, _)
\* url.Values.Encode: keys in sorted order, each value escaped
Encode(values, i) ==
    IF i > Len(SortedQueryKeys) THEN <<>>
    ELSE LET k == SortedQueryKeys[i]
         IN  [j \in 1..Len(values[k]) |->
                 [key |-> k, value |-> QueryEscape(values[k][j])]]
             \o Encode(values, i + 1)

\* sling addQueryStructs: the raw query of the request URL
addQueryStructs(queryStructs) ==
    Encode(mergeQueryStructs(EmptyValues, queryStructs, 1), 1)

\* json.Marshal of an AddressEntity (its fields are declared outside
\* orders.go): a JSON object
MarshalAddressEntity(a) == "{" \o a \o "}"

RECURSIVE JoinTexts(_, _)
\* the texts joined by commas
JoinTexts(texts, i) ==
    IF i > Len(texts) THEN ""
    ELSE texts[i] \o (IF i < Len(texts) THEN "," ELSE "") \o JoinTexts(texts, i + 1)

\* the text of a JSON object with the given members
ObjectText(members) ==
    "{" \o JoinTexts([j \in 1..Len(members) |->
                         "\"" \o members[j].key \o "\":" \o members[j].value], 1)
        \o "}"

RECURSIVE Marshal(_, _, _)
RECURSIVE JSONValue(_, _)

\* encoding/json: the JSON text of one field value
JSONValue(kind, v) ==
    CASE kind = "int"       -> Sprintf_d(v)
      [] kind = "float"     -> FormatFloat(v)
      [] kind = "string"    -> "\"" \o v \o "\""
      [] kind = "ptr"       -> IF v = <<>> THEN "null" ELSE FormatUint(v[1])
      [] kind = "struct"    -> MarshalAddressEntity(v)
      [] kind = "products"  ->
            IF Len(v) = 0 THEN "null"
            ELSE "[" \o JoinTexts([j \in 1..Len(v) |->
                            ObjectText(Marshal(OrderProductFields, v[j], 1))], 1)
                     \o "]"
      [] kind = "addresses" ->
            IF Len(v) = 0 THEN "null"
            ELSE "[" \o JoinTexts([j \in 1..Len(v) |-> MarshalAddressEntity(v[j])], 1)
                     \o "]"

\* encoding/json on a struct: its members from field i on, in field order,
\* skipping an omitempty field that holds its empty value
Marshal(fields, rec, i) ==
    IF i > Len(fields) THEN <<>>
    ELSE LET f == fields[i]
             v == rec[f.name]
         IN  IF f.omitempty /\ isEmptyValue(f.kind, v)
             THEN Marshal(fields, rec, i + 1)
             ELSE <<[key |-> f.key, value |-> JSONValue(f.kind, v)]>>
                  \o Marshal(fields, rec, i + 1)

\* the struct fields of a JSON payload type
FieldsOf(type) ==
    IF type = "OrderBody" THEN OrderBodyFields ELSE OrderEditParamsFields

-----------------------------------------------------------------------------
(* The request builder (sling.Sling) *)

\* url.URL.ResolveReference on relative paths: an empty reference keeps the
\* base path, any other replaces the base's last segment
ResolveReference(base, ref) ==
    IF ref = <<>> THEN base
    ELSE SubSeq(base, 1, Len(base) - 1) \o ref

\* Sling.Path: the raw URL resolved against the path; a path ending in "/"
\* keeps its trailing slash
SlingPath(s, path) ==
    LET r == ResolveReference(s.rawURL, path)
    IN  [s EXCEPT !.rawURL =
            IF path # <<>> /\ path[Len(path)] = "" /\ r[Len(r)] # ""
            THEN Append(r, "") ELSE r]

\* Sling.Get / Post / Put: set the method, then Path
SlingGet(s, path)  == SlingPath([s EXCEPT !.method = "GET"], path)
SlingPost(s, path) == SlingPath([s EXCEPT !.method = "POST"], path)
SlingPut(s, path)  == SlingPath([s EXCEPT !.method = "PUT"], path)

\* Sling.New: a child builder with a copy of every field of the parent
SlingNew(s) ==
    [method       |-> s.method,
     rawURL       |-> s.rawURL,
     queryStructs |-> s.queryStructs,
     bodyProvider |-> s.bodyProvider]

\* Sling.QueryStruct: append the struct to the builder's query structs
QueryStruct(s, params) ==
    [s EXCEPT !.queryStructs = Append(@, params)]

\* Sling.BodyJSON: the builder's body is the JSON encoding of the payload
BodyJSON(s, type, payload) ==
    [s EXCEPT !.bodyProvider = <<[type |-> type, payload |-> payload]>>]

\* Sling.Request: the HTTP request the builder describes
Request(s) ==
    [method |-> s.method,
     path   |-> s.rawURL,
     query  |-> addQueryStructs(s.queryStructs),
     body   |-> IF s.bodyProvider = <<>> THEN <<>>
                ELSE LET b == s.bodyProvider[1]
                     IN  <<Marshal(FieldsOf(b.type), b.payload, 1)>>]

\* the builder newOrderService stores: the client's builder with
\* Path("orders/") applied
newOrderService ==
    SlingPath([method |-> "GET", rawURL |-> <<"">>, queryStructs |-> <<>>,
               bodyProvider |-> <<>>],
              <<"orders", "">>)

-----------------------------------------------------------------------------
(* The collaborators declared outside orders.go *)

\* what the HTTP exchange of one request can come to: no response at all
\* (network failure, timeout), a 2xx response, or a non-2xx response with or
\* without a structured error body; "failure" is a transport-level failure
\* (no response, or a response body that could not be read or decoded)
Outcomes ==
    { [status |-> "none", errorBody |-> FALSE, failure |-> TRUE] }
    \cup [status : {"2xx"}, errorBody : {FALSE}, failure : BOOLEAN]
    \cup [status : {"non2xx"}, errorBody : BOOLEAN, failure : BOOLEAN]

\* performRequest(ctx, sling, httpClient, successV, failureV): builds the
\* request, has the HTTP client execute it once, decodes a 2xx body into
\* successV and a structured error body into failureV
performRequest(s, successV, failureV, o) ==
    [request  |-> Request(s),
     resp     |-> o.status,
     err      |-> IF o.failure THEN "transport" ELSE "nil",
     successV |-> IF o.status = "2xx"
                  THEN [successV EXCEPT !.written = TRUE] ELSE successV,
     failureV |-> IF o.status = "non2xx" /\ o.errorBody
                  THEN [failureV EXCEPT !.populated = TRUE] ELSE failureV]

\* relevantError(httpError, apiError): the transport error when there is
\* one, else the API error when its payload is populated, else nil
relevantError(err, apiError) ==
    IF err # "nil" THEN err
    ELSE IF apiError.populated THEN "api"
    ELSE "nil"

-----------------------------------------------------------------------------
(* OrderService *)

\* new(Orders), new(Count), new(Order): a zero value no field of which has
\* been written
new(type) == [type |-> type, written |-> FALSE]

\* new(APIError): the empty API error
newAPIError == [populated |-> FALSE]

\* the arguments of a call; a sequence is empty where the operation takes
\* no such argument
Args(id, params, body, edit) ==
    [id |-> id, params |-> params, body |-> body, edit |-> edit]

NoCall ==
    [op |-> "none", args |-> Args(<<>>, <<>>, <<>>, <<>>),
     request |-> <<>>, outcome |-> <<>>, payload |-> <<>>, resp |-> "none",
     transportErr |-> "nil", apiError |-> newAPIError, err |-> "nil"]

\* a return statement that returns the transport error alone
ReturnedTransportOnly(op, args, o, r) ==
    [op |-> op, args |-> args, request |-> <<r.request>>, outcome |-> <<o>>,
     payload |-> <<r.successV>>, resp |-> r.resp,
     transportErr |-> r.err, apiError |-> r.failureV,
     err |-> r.err]

\* a return statement that selects on the API error alone
ReturnedAPIOnly(op, args, o, r) ==
    [op |-> op, args |-> args, request |-> <<r.request>>, outcome |-> <<o>>,
     payload |-> <<r.successV>>, resp |-> r.resp,
     transportErr |-> r.err, apiError |-> r.failureV,
     err |-> relevantError("nil", r.failureV)]

\* the return statement of the five methods: the payload, the response and
\* relevantError(err, *apiError); the call is recorded with the request it
\* handed over and with what performRequest gave back
Returned(op, args, o, r) ==
    [op |-> op, args |-> args, request |-> <<r.request>>, outcome |-> <<o>>,
     payload |-> <<r.successV>>, resp |-> r.resp,
     transportErr |-> r.err, apiError |-> r.failureV,
     err |-> relevantError(r.err, r.failureV)]

\* a List that hands its request over again when the first attempt failed
ListRetry(params, o) ==
    /\ ncalls < MaxCalls
    /\ LET orders   == new("Orders")
           apiError == newAPIError
           r == performRequest(QueryStruct(SlingNew(sling), params),
                               orders, apiError, o)
       IN  /\ last' = Returned("List", Args(<<>>, <<params>>, <<>>, <<>>), o, r)
           /\ nsent' = nsent + (IF r.err # "nil" THEN 2 ELSE 1)
    /\ ncalls' = ncalls + 1
    /\ UNCHANGED <<sling, pc, call, loc, issued, wrote>>

\* OrderService.List
List(params, o) ==
    /\ ncalls < MaxCalls
    /\ LET orders   == new("Orders")
           apiError == newAPIError
           r == performRequest(QueryStruct(SlingNew(sling), params),
                               orders, apiError, o)
       IN  /\ last' = Returned("List", Args(<<>>, <<params>>, <<>>, <<>>), o, r)
           /\ nsent' = nsent + 1
    /\ ncalls' = ncalls + 1
    /\ UNCHANGED <<sling, pc, call, loc, issued, wrote>>

\* OrderService.Count: Get and QueryStruct are applied to s.sling itself
Count(params, o) ==
    /\ ncalls < MaxCalls
    /\ LET count    == new("Count")
           apiError == newAPIError
           shared   == QueryStruct(SlingGet(sling, <<"count">>), params)
           r == performRequest(shared, count, apiError, o)
       IN  /\ sling' = shared
           /\ last' = Returned("Count", Args(<<>>, <<params>>, <<>>, <<>>), o, r)
           /\ nsent' = nsent + 1
    /\ ncalls' = ncalls + 1
    /\ UNCHANGED <<pc, call, loc, issued, wrote>>

\* OrderService.Show
Show(id, o) ==
    /\ ncalls < MaxCalls
    /\ LET order    == new("Order")
           apiError == newAPIError
           r == performRequest(SlingGet(SlingNew(sling), <<Sprintf_d(id)>>),
                               order, apiError, o)
       IN  /\ last' = Returned("Show", Args(<<id>>, <<>>, <<>>, <<>>), o, r)
           /\ nsent' = nsent + 1
    /\ ncalls' = ncalls + 1
    /\ UNCHANGED <<sling, pc, call, loc, issued, wrote>>

\* OrderService.New
New(body, o) ==
    /\ ncalls < MaxCalls
    /\ LET order    == new("Order")
           apiError == newAPIError
           r == performRequest(
                    BodyJSON(SlingPost(SlingNew(sling), <<>>), "OrderBody", body),
                    order, apiError, o)
       IN  /\ last' = Returned("New", Args(<<>>, <<>>, <<body>>, <<>>), o, r)
           /\ nsent' = nsent + 1
    /\ ncalls' = ncalls + 1
    /\ UNCHANGED <<sling, pc, call, loc, issued, wrote>>

\* an Edit that posts: Post in place of Put
EditPost(id, params, o) ==
    /\ ncalls < MaxCalls
    /\ LET order    == new("Order")
           apiError == newAPIError
           r == performRequest(
                    BodyJSON(SlingPost(SlingNew(sling), <<Sprintf_d(id)>>),
                             "OrderEditParams", params),
                    order, apiError, o)
       IN  /\ last' = Returned("Edit", Args(<<id>>, <<>>, <<>>, <<params>>), o, r)
           /\ nsent' = nsent + 1
    /\ ncalls' = ncalls + 1
    /\ UNCHANGED <<sling, pc, call, loc, issued, wrote>>

\* OrderService.Edit
Edit(id, params, o) ==
    /\ ncalls < MaxCalls
    /\ LET order    == new("Order")
           apiError == newAPIError
           r == performRequest(
                    BodyJSON(SlingPut(SlingNew(sling), <<Sprintf_d(id)>>),
                             "OrderEditParams", params),
                    order, apiError, o)
       IN  /\ last' = Returned("Edit", Args(<<id>>, <<>>, <<>>, <<params>>), o, r)
           /\ nsent' = nsent + 1
    /\ ncalls' = ncalls + 1
    /\ UNCHANGED <<sling, pc, call, loc, issued, wrote>>

-----------------------------------------------------------------------------
(* Calls in flight at the same time on one service.  Each call runs the    *)
(* statements of its method in order; a step of a call is one read or one  *)
(* write of a field of s.sling, or the hand-over of the request.  The      *)
(* fields are read and written without synchronisation, so a call sees     *)
(* whatever the other calls have written so far.                           *)

Procs == 1..MaxInFlight

Idle == [op |-> "none", args |-> Args(<<>>, <<>>, <<>>, <<>>)]

\* the method is entered: List, Show, New and Edit begin with s.sling.New(),
\* Count with s.sling.Get("count")
Start(p, op, args) ==
    /\ pc[p] = "idle"
    /\ ncalls < MaxCalls
    /\ ncalls' = ncalls + 1
    /\ call' = [call EXCEPT ![p] = [op |-> op, args |-> args]]
    /\ pc' = [pc EXCEPT ![p] = IF op = "Count" THEN "get" ELSE "new"]
    /\ issued' = [issued EXCEPT ![p] = <<>>]
    /\ wrote' = [wrote EXCEPT ![p] = {}]
    /\ UNCHANGED <<sling, last, nsent, loc>>

\* Sling.New, first field: the child's method is read from s.sling
NewCopyMethod(p) ==
    /\ pc[p] = "new"
    /\ loc' = [loc EXCEPT ![p].method = sling.method]
    /\ pc' = [pc EXCEPT ![p] = "new_rawURL"]
    /\ UNCHANGED <<sling, last, ncalls, nsent, call, issued, wrote>>

\* Sling.New, second field: the child's rawURL is read from s.sling
NewCopyRawURL(p) ==
    /\ pc[p] = "new_rawURL"
    /\ loc' = [loc EXCEPT ![p].rawURL = sling.rawURL]
    /\ pc' = [pc EXCEPT ![p] = "new_queryStructs"]
    /\ UNCHANGED <<sling, last, ncalls, nsent, call, issued, wrote>>

\* Sling.New, remaining fields: the query structs and the body provider
\* (which no method writes) are read from s.sling
NewCopyQueryStructs(p) ==
    /\ pc[p] = "new_queryStructs"
    /\ loc' = [loc EXCEPT ![p].queryStructs = sling.queryStructs,
                          ![p].bodyProvider = sling.bodyProvider]
    /\ pc' = [pc EXCEPT ![p] = "perform"]
    /\ UNCHANGED <<sling, last, ncalls, nsent, call, issued, wrote>>

\* the builder calls List, Show, New and Edit chain on their child builder
Chain(c, child) ==
    CASE c.op = "List" -> QueryStruct(child, c.args.params[1])
      [] c.op = "Show" -> SlingGet(child, <<Sprintf_d(c.args.id[1])>>)
      [] c.op = "New"  -> BodyJSON(SlingPost(child, <<>>), "OrderBody", c.args.body[1])
      [] c.op = "Edit" -> BodyJSON(SlingPut(child, <<Sprintf_d(c.args.id[1])>>),
                                   "OrderEditParams", c.args.edit[1])

\* List, Show, New, Edit: the chained calls on the child, then performRequest
Perform(p) ==
    /\ pc[p] = "perform"
    /\ issued' = [issued EXCEPT ![p] = <<Request(Chain(call[p], loc[p]))>>]
    /\ nsent' = nsent + 1
    /\ pc' = [pc EXCEPT ![p] = "done"]
    /\ UNCHANGED <<sling, last, ncalls, call, loc, wrote>>

\* Count, Sling.Get: s.sling.method is written
CountSetMethod(p) ==
    /\ pc[p] = "get"
    /\ sling' = [sling EXCEPT !.method = "GET"]
    /\ wrote' = [wrote EXCEPT ![p] = @ \cup {"method"}]
    /\ pc' = [pc EXCEPT ![p] = "path"]
    /\ UNCHANGED <<last, ncalls, nsent, call, loc, issued>>

\* Count, Sling.Path: s.sling.rawURL is resolved against "count" and written
CountPath(p) ==
    /\ pc[p] = "path"
    /\ sling' = SlingPath(sling, <<"count">>)
    /\ wrote' = [wrote EXCEPT ![p] = @ \cup {"rawURL"}]
    /\ pc' = [pc EXCEPT ![p] = "append_read"]
    /\ UNCHANGED <<last, ncalls, nsent, call, loc, issued>>

\* Count, Sling.QueryStruct: append reads s.sling.queryStructs
CountAppendRead(p) ==
    /\ pc[p] = "append_read"
    /\ loc' = [loc EXCEPT ![p].queryStructs = sling.queryStructs]
    /\ pc' = [pc EXCEPT ![p] = "append_write"]
    /\ UNCHANGED <<sling, last, ncalls, nsent, call, issued, wrote>>

\* Count, Sling.QueryStruct: the appended slice is written to
\* s.sling.queryStructs
CountAppendWrite(p) ==
    /\ pc[p] = "append_write"
    /\ sling' = [sling EXCEPT !.queryStructs =
                     Append(loc[p].queryStructs, call[p].args.params[1])]
    /\ wrote' = [wrote EXCEPT ![p] = @ \cup {"queryStructs"}]
    /\ pc' = [pc EXCEPT ![p] = "perform_shared"]
    /\ UNCHANGED <<last, ncalls, nsent, call, loc, issued>>

\* Count: performRequest builds the request from s.sling itself
CountPerform(p) ==
    /\ pc[p] = "perform_shared"
    /\ issued' = [issued EXCEPT ![p] = <<Request(sling)>>]
    /\ nsent' = nsent + 1
    /\ pc' = [pc EXCEPT ![p] = "done"]
    /\ UNCHANGED <<sling, last, ncalls, call, loc, wrote>>

\* the method returns
Return(p) ==
    /\ pc[p] = "done"
    /\ pc' = [pc EXCEPT ![p] = "idle"]
    /\ call' = [call EXCEPT ![p] = Idle]
    /\ issued' = [issued EXCEPT ![p] = <<>>]
    /\ wrote' = [wrote EXCEPT ![p] = {}]
    /\ UNCHANGED <<sling, last, ncalls, nsent, loc>>

\* the calls a caller can make
CallSet ==
    { [op |-> "List", args |-> Args(<<>>, <<q>>, <<>>, <<>>)] : q \in ListParamSet }
    \cup { [op |-> "Count", args |-> Args(<<>>, <<q>>, <<>>, <<>>)] : q \in ListParamSet }
    \cup { [op |-> "Show", args |-> Args(<<i>>, <<>>, <<>>, <<>>)] : i \in IdSet }
    \cup { [op |-> "New", args |-> Args(<<>>, <<>>, <<b>>, <<>>)] : b \in BodySet }
    \cup { [op |-> "Edit", args |-> Args(<<i>>, <<>>, <<>>, <<e>>)] :
               i \in IdSet, e \in EditParamSet }

\* calls started at any time by up to MaxInFlight callers, their steps
\* interleaved
NextConc ==
    \E p \in Procs :
        \/ \E c \in CallSet : Start(p, c.op, c.args)
        \/ NewCopyMethod(p)
        \/ NewCopyRawURL(p)
        \/ NewCopyQueryStructs(p)
        \/ Perform(p)
        \/ CountSetMethod(p)
        \/ CountPath(p)
        \/ CountAppendRead(p)
        \/ CountAppendWrite(p)
        \/ CountPerform(p)
        \/ Return(p)


\* the service as newOrderService returns it, no call made
Init ==
    /\ sling = newOrderService
    /\ last = NoCall
    /\ ncalls = 0
    /\ nsent = 0
    /\ pc = [p \in Procs |-> "idle"]
    /\ call = [p \in Procs |-> Idle]
    /\ loc = [p \in Procs |-> newOrderService]
    /\ issued = [p \in Procs |-> <<>>]
    /\ wrote = [p \in Procs |-> {}]

\* calls made one after the other, each running to its return
Next ==
    \/ \E params \in ListParamSet, o \in Outcomes : List(params, o)
    \/ \E params \in ListParamSet, o \in Outcomes : Count(params, o)
    \/ \E id \in IdSet, o \in Outcomes : Show(id, o)
    \/ \E body \in BodySet, o \in Outcomes : New(body, o)
    \/ \E id \in IdSet, params \in EditParamSet, o \in Outcomes : Edit(id, params, o)

Spec == Init /\ [][Next]_vars

\* the service under concurrent callers
SpecConc == Init /\ [][NextConc]_vars

-----------------------------------------------------------------------------
(* Properties *)

\* a call has returned
Called == last.op # "none"

\* the request the last call handed over
LastRequest == last.request[1]

\* the keys of a query string or of a JSON object
KeysOf(pairs) == { pairs[i].key : i \in 1..Len(pairs) }

\* the request a call hands over when it runs alone on a fresh service
SoloRequest(c) ==
    IF c.op = "Count"
    THEN Request(QueryStruct(SlingGet(newOrderService, <<"count">>), c.args.params[1]))
    ELSE Request(Chain(c, SlingNew(newOrderService)))

\* C1: after any sequence of calls the builder held in the service (path,
\* method, query structs) is what newOrderService set it to: path "orders/",
\* no query structs.
C1_BaseUnchanged ==
    /\ sling = newOrderService
    /\ sling.rawURL = <<"orders", "">>
    /\ sling.queryStructs = <<>>

\* C2: with calls in flight at the same time, under every interleaving, each
\* call hands over the request it would hand over alone on a fresh service,
\* and no two calls in flight write the same field of the service.
C2_ConcurrentReuseSafe ==
    /\ \A p \in Procs : pc[p] = "done" => issued[p][1] = SoloRequest(call[p])
    /\ \A p, q \in Procs : p # q => wrote[p] \cap wrote[q] = {}

\* C3: every List is a GET of exactly "orders/" and every New a POST of
\* exactly "orders/", whatever calls were made before.
C3_ListNewPath ==
    /\ last.op = "List" =>
          LastRequest.method = "GET" /\ LastRequest.path = <<"orders", "">>
    /\ last.op = "New" =>
          LastRequest.method = "POST" /\ LastRequest.path = <<"orders", "">>

\* C4: every Count is a GET of exactly "orders/count" whose query string is
\* the serialization of the params of that call and nothing else.
C4_CountOwnQuery ==
    last.op = "Count" =>
        /\ LastRequest.method = "GET"
        /\ LastRequest.path = <<"orders", "count">>
        /\ LastRequest.query = addQueryStructs(<<last.args.params[1]>>)

\* the decimal numerals of the order ids of IdSet
Decimal(id) ==
    CASE id = -3 -> "-3" [] id = 7 -> "7" [] id = 120 -> "120"

\* C5: every Show(id) is a GET and every Edit(id, params) a PUT of exactly
\* "orders/{id}", id in decimal, whatever calls were made before.
C5_ShowEditPath ==
    /\ last.op = "Show" =>
          /\ LastRequest.method = "GET"
          /\ LastRequest.path = <<"orders", Decimal(last.args.id[1])>>
    /\ last.op = "Edit" =>
          /\ LastRequest.method = "PUT"
          /\ LastRequest.path = <<"orders", Decimal(last.args.id[1])>>

\* C5 witness: an Edit made after a Count has rewritten the shared builder
C5_Witness ==
    /\ last.op = "Edit"
    /\ last.args.id = <<-3>>
    /\ sling.rawURL = <<"orders", "count">>

\* C6: the returned error is the transport error when there is one (also
\* when the API error is populated too), else the API error when it is
\* populated, else nil.
C6_ErrorSelection ==
    Called =>
        last.err = IF last.transportErr # "nil" THEN last.transportErr
                   ELSE IF last.apiError.populated THEN "api"
                   ELSE "nil"

\* C6 witness: a call that had both a transport error and a populated API
\* error, and returned the transport error
C6_Witness ==
    /\ Called
    /\ last.transportErr = "transport"
    /\ last.apiError.populated
    /\ last.err = "transport"

\* C7: on a non-2xx answer with a structured error body and no transport
\* error, the returned error is the API error and the returned payload is
\* the zero value of its type.
C7_APIErrorZeroPayload ==
    (/\ Called
     /\ last.outcome[1].status = "non2xx"
     /\ last.outcome[1].errorBody
     /\ ~last.outcome[1].failure)
    => /\ last.err = "api"
       /\ last.payload[1] =
             [type |-> CASE last.op = "List" -> "Orders"
                         [] last.op = "Count" -> "Count"
                         [] OTHER -> "Order",
              written |-> FALSE]

\* C7 witness: a New answered non-2xx with a structured error body
C7_Witness ==
    /\ last.op = "New"
    /\ last.outcome[1].status = "non2xx"
    /\ last.outcome[1].errorBody
    /\ ~last.outcome[1].failure
    /\ last.err = "api"

\* a query string has the key with exactly this value
HasPair(query, k, v) ==
    \E i \in 1..Len(query) : query[i].key = k /\ query[i].value = v

\* C8: in the query string of every List or Count, customer_id (status_id)
\* is absent when the pointer is nil and present with value "0" when it
\* points to 0, and every non-pointer field holding its zero value is absent.
C8_OmitUnset ==
    last.op \in {"List", "Count"} =>
        LET q == last.args.params[1]
            keys == KeysOf(LastRequest.query)
        IN  /\ q.CustomerID = <<>> => "customer_id" \notin keys
            /\ q.CustomerID = <<0>> => HasPair(LastRequest.query, "customer_id", "0")
            /\ q.StatusID = <<>> => "status_id" \notin keys
            /\ q.StatusID = <<0>> => HasPair(LastRequest.query, "status_id", "0")
            /\ q.Page = 0 => "page" \notin keys
            /\ q.Limit = 0 => "limit" \notin keys
            /\ q.Sort = "" => "sort" \notin keys
            /\ q.MinID = 0 => "min_id" \notin keys
            /\ q.MaxID = 0 => "max_id" \notin keys
            /\ q.MinTotal = 0 => "min_total" \notin keys
            /\ q.MaxTotal = 0 => "max_total" \notin keys
            /\ q.Email = "" => "email" \notin keys
            /\ q.PaymentMethod = "" => "payment_method" \notin keys

\* C9: the JSON body of every Edit has no key for a field left unset; with
\* only StatusID set its only key is "status_id".
C9_EditBodyOnlySupplied ==
    last.op = "Edit" =>
        LET e == last.args.edit[1]
            keys == KeysOf(LastRequest.body[1])
        IN  /\ e.CustomerID = <<>> => "customer_id" \notin keys
            /\ e.StatusID = <<>> => "status_id" \notin keys
            /\ e.IPAddress = "" => "ip_address" \notin keys
            /\ e.StaffNotes = "" => "staff_notes" \notin keys
            /\ e.CustomerMessage = "" => "customer_message" \notin keys
            /\ e.BillingAddress = ZeroAddressEntity => "billing_address" \notin keys
            /\ e = [ZeroOrderEditParams EXCEPT !.StatusID = <<2>>]
                  => keys = {"status_id"}

\* C10: every call hands exactly one request to the request executor,
\* whether it succeeds or fails: the requests handed over are as many as the
\* calls made.
C10_OneRequestPerCall ==
    nsent = ncalls

\* C10 witness: a List that ended in a transport error, with one request
\* handed over for the one call made
C10_Witness ==
    /\ last.op = "List"
    /\ last.transportErr = "transport"
    /\ ncalls = 1
    /\ nsent = 1

=============================================================================
